---- MODULE Spec2Model ----
(***************************************************************************)
(* Model of demos-faucet-automation/demos_faucet.py: the retry loop of     *)
(* DemosFaucetAutomation.request_tokens, check_faucet_status, and the      *)
(* two-pass batch loop of run_automation, generate_wallet, and the loop of  *)
(* demos-faucet-automation/batch_transfer.py.  Time is in seconds, as      *)
(* passed to time.sleep.                                                   *)
(***************************************************************************)
EXTENDS Integers, Sequences, FiniteSets, TLC

\* ------------------------------------------------------------------ bounds
MaxCount == 3          \* run_automation is explored for count in 0..MaxCount
MaxRetry == 3          \* request_tokens is explored for retry_count in -1..MaxRetry
MaxStatusCalls == 2    \* number of check_faucet_status calls explored
MaxFiles == 3          \* batch_transfer is explored for 0..MaxFiles wallet files

\* ------------------------------------------------------- program constants
DefaultRetryCount == 3     \* default of the retry_count parameter
RateLimitBase == 30        \* wait_time = 30 * attempt
RetryPause == 5            \* time.sleep(5) at the end of a loop iteration
CreatePause == 2           \* time.sleep(2) between wallet creations
MnemonicWords == 12        \* random.sample(words, 12)
TransferPause == 2         \* time.sleep(2) between transfers
TransferCents == 9999      \* total_amount += 99.99, in hundredths

\* ------------------------------------------------------------------ inputs
\* Delays passed as --delay, in milliseconds; multiples of 1000 so that the
\* division delay / 1000 is exact in the integers.
Delays == {0, 5000}

\* The address given to a direct request_tokens call (not a batch wallet).
ExternalAddress == 0

\* What one requests.post can produce: a response with a status code, or a
\* requests.exceptions.RequestException (timeout, DNS, connection refused).
Statuses == {200, 201, 429, 500}
Responses == [exc : {FALSE}, status : Statuses] \cup [exc : {TRUE}, status : {0}]

NetErr == [exc |-> TRUE, status |-> 0]
Http(s) == [exc |-> FALSE, status |-> s]

VARIABLES
    cmd,                  \* "request" | "status" | "auto"
    pc,                   \* position in the running command
    count, delay,         \* run_automation parameters
    i,                    \* loop index of the current run_automation loop
    wallets,              \* run_automation's list, wallets identified by creation index
    saved,                \* wallet files written by save_wallet
    failedSave,           \* wallet whose save_wallet raised, 0 if none
    successful_requests,  \* run_automation's counter
    address, retry_count, \* request_tokens parameters
    attempt,              \* request_tokens loop variable
    result,               \* request_tokens return value: "none" while running
    hist,                 \* responses to the POSTs of the current request_tokens call
    sleeps,               \* per finished failed attempt, the time.sleep calls that followed it
    outcomes,             \* per requested wallet: what request_tokens returned and its POSTs
    pauseLog,             \* the time.sleep calls made by run_automation itself
    statusResp,           \* last response seen by check_faucet_status
    statusResult,         \* last return value of check_faucet_status
    statusCalls, gets,    \* check_faucet_status calls made, GETs issued
    prevStatusResp,       \* response and return value of the call before the last
    prevStatusResult,
    faucet_frontend_url,  \* fields of the DemosFaucetAutomation object
    faucet_backend_url,
    pool, mnemonic,       \* generate_wallet: words not yet drawn, words drawn
    walletFiles,          \* batch_transfer: content kind of each wallet file, sorted
    fileIdx,              \* batch_transfer loop index
    successful_transfers, \* batch_transfer counters
    total_amount,
    visited,              \* files batch_transfer has processed, in order
    transferPauses        \* the time.sleep calls made by batch_transfer

vars == <<cmd, pc, count, delay, i, wallets, saved, failedSave, successful_requests,
          address, retry_count, attempt, result, hist, sleeps, outcomes, pauseLog,
          statusResp, statusResult, statusCalls, gets, prevStatusResp, prevStatusResult,
          faucet_frontend_url, faucet_backend_url, pool, mnemonic,
          walletFiles, fileIdx, successful_transfers, total_amount, visited,
          transferPauses>>

autoVars == <<count, delay, i, wallets, saved, failedSave, successful_requests,
              outcomes, pauseLog>>
reqVars == <<address, retry_count, attempt, result, hist, sleeps>>
statusVars == <<statusResp, statusResult, statusCalls, gets, prevStatusResp,
                prevStatusResult>>
objVars == <<faucet_frontend_url, faucet_backend_url>>
walletVars == <<pool, mnemonic>>
transferVars == <<walletFiles, fileIdx, successful_transfers, total_amount, visited,
                  transferPauses>>

\* ------------------------------------------------------------ request_tokens

RECURSIVE SumSeq(_)
SumSeq(s) == IF s = <<>> THEN 0 ELSE Head(s) + SumSeq(Tail(s))

\* for attempt in range(1, retry_count + 1)
LoopContinues_OffByOne(a, rc) == a <= rc + 1
LoopContinues_AtLeastOnce(a, rc) == a = 1 \/ a <= rc
LoopContinues(a, rc) == a <= rc

\* Classification of one response by the if/elif/else and the except clause.
Classify_Any2xx(resp) ==
    IF resp.exc THEN "NetworkError"
    ELSE IF resp.status \in 200 .. 299 THEN "Success"
    ELSE IF resp.status = 429 THEN "RateLimited"
    ELSE "Rejected"
Classify(resp) ==
    IF resp.exc THEN "NetworkError"
    ELSE IF resp.status = 200 THEN "Success"
    ELSE IF resp.status = 429 THEN "RateLimited"
    ELSE "Rejected"

\* One iteration of the loop body for the response resp to attempt a:
\* ret is TRUE when the iteration returns True, sleeps lists the time.sleep
\* calls of the iteration in order.
LoopBody_NoReturn(resp, a, rc) ==
    [ret |-> FALSE,
     sleeps |-> (IF Classify(resp) = "RateLimited" /\ a < rc
                 THEN <<RateLimitBase * a>> ELSE <<>>)
                \o (IF a < rc THEN <<RetryPause>> ELSE <<>>)]
LoopBody_ExceptSkipsPause(resp, a, rc) ==
    IF Classify(resp) = "Success"
    THEN [ret |-> TRUE, sleeps |-> <<>>]
    ELSE [ret |-> FALSE,
          sleeps |-> (IF Classify(resp) = "RateLimited" /\ a < rc
                      THEN <<RateLimitBase * a>> ELSE <<>>)
                     \o (IF a < rc /\ Classify(resp) # "NetworkError"
                         THEN <<RetryPause>> ELSE <<>>)]
LoopBody_PauseAfterLast(resp, a, rc) ==
    IF Classify(resp) = "Success"
    THEN [ret |-> TRUE, sleeps |-> <<>>]
    ELSE [ret |-> FALSE,
          sleeps |-> (IF Classify(resp) = "RateLimited" /\ a < rc
                      THEN <<RateLimitBase * a>> ELSE <<>>)
                     \o (IF a <= rc THEN <<RetryPause>> ELSE <<>>)]
LoopBody(resp, a, rc) ==
    IF Classify(resp) = "Success"
    THEN [ret |-> TRUE, sleeps |-> <<>>]
    ELSE [ret |-> FALSE,
          sleeps |-> (IF Classify(resp) = "RateLimited" /\ a < rc
                      THEN <<RateLimitBase * a>> ELSE <<>>)
                     \o (IF a < rc THEN <<RetryPause>> ELSE <<>>)]

\* request_tokens as a function of the responses h the backend gives to its
\* successive POSTs, run from attempt a: the value returned, the POSTs made
\* and the total time slept.  "none" when h ends before the call returns.
RECURSIVE PolicyFrom(_, _, _)
PolicyFrom(h, a, rc) ==
    IF ~LoopContinues(a, rc) THEN [result |-> "false", calls |-> a - 1, wait |-> 0]
    ELSE IF a > Len(h) THEN [result |-> "none", calls |-> a - 1, wait |-> 0]
    ELSE LET b == LoopBody(h[a], a, rc) IN
         IF b.ret THEN [result |-> "true", calls |-> a, wait |-> 0]
         ELSE LET r == PolicyFrom(h, a + 1, rc) IN
              [r EXCEPT !.wait = @ + SumSeq(b.sleeps)]

RunPolicy(h, rc) == PolicyFrom(h, 1, rc)

\* One pass through the loop body: POST, classify, sleep or return True.
Attempt ==
    /\ pc = "attempt"
    /\ LoopContinues(attempt, retry_count)
    /\ \E resp \in Responses :
         LET b == LoopBody(resp, attempt, retry_count) IN
         /\ hist' = Append(hist, resp)
         /\ IF b.ret
            THEN /\ result' = "true"
                 /\ pc' = "returned"
                 /\ UNCHANGED <<attempt, sleeps>>
            ELSE /\ sleeps' = Append(sleeps, b.sleeps)
                 /\ attempt' = attempt + 1
                 /\ UNCHANGED <<result, pc>>
    /\ UNCHANGED <<cmd, address, retry_count>>
    /\ UNCHANGED autoVars
    /\ UNCHANGED statusVars
    /\ UNCHANGED <<objVars, walletVars, transferVars>>

\* The loop is exhausted: return False.
LoopExit ==
    /\ pc = "attempt"
    /\ ~LoopContinues(attempt, retry_count)
    /\ result' = "false"
    /\ pc' = "returned"
    /\ UNCHANGED <<cmd, address, retry_count, attempt, hist, sleeps>>
    /\ UNCHANGED autoVars
    /\ UNCHANGED statusVars
    /\ UNCHANGED <<objVars, walletVars, transferVars>>

\* ------------------------------------------------------- check_faucet_status

\* What one requests.get can produce.  json is how response.json() fares:
\* "invalid" raises, "array" is valid JSON that is not an object, "object" is
\* a JSON object whose "body" member is absent, a non-object ("scalar") or an
\* object whose balance / publicKey members are present or absent.
Absent == "absent"
StatusBodies ==
    [json : {"invalid", "array"}, body : {Absent}, balance : {Absent}, publicKey : {Absent}]
    \cup [json : {"object"}, body : {Absent, "scalar"}, balance : {Absent}, publicKey : {Absent}]
    \cup [json : {"object"}, body : {"object"}, balance : {Absent, "100"},
          publicKey : {Absent, "0xfaucet"}]
NoBody == [json |-> "invalid", body |-> Absent, balance |-> Absent, publicKey |-> Absent]
StatusResponses ==
    {[exc |-> TRUE, status |-> 0, data |-> NoBody]}
    \cup [exc : {FALSE}, status : {200, 429, 500}, data : StatusBodies]

None == [none |-> TRUE, balance |-> "", address |-> ""]
Pair(b, a) == [none |-> FALSE, balance |-> b, address |-> a]

\* data.get("body", {}).get(key, "Unknown") for a JSON object data whose
\* body is absent or an object.
GetField(data, key) ==
    IF data.body = Absent \/ data[key] = Absent THEN "Unknown" ELSE data[key]

\* The value check_faucet_status returns for the response resp.
CheckStatusResult_NoneWhenFieldMissing(resp) ==
    IF resp.exc \/ resp.status # 200 \/ resp.data.json # "object" THEN None
    ELSE IF resp.data.body # "object" THEN None
    ELSE IF resp.data.balance = Absent \/ resp.data.publicKey = Absent THEN None
    ELSE Pair(resp.data.balance, resp.data.publicKey)
CheckStatusResult(resp) ==
    IF resp.exc THEN None
    ELSE IF resp.status # 200 THEN None
    ELSE IF resp.data.json # "object" THEN None
    ELSE IF resp.data.body = "scalar" THEN None
    ELSE Pair(GetField(resp.data, "balance"), GetField(resp.data, "publicKey"))

\* One call: a single GET, then the return value.
CheckFaucetStatus_FailsOnRepeat ==
    /\ cmd = "status"
    /\ statusCalls < MaxStatusCalls
    /\ \E resp \in StatusResponses :
         /\ statusResp' = resp
         /\ statusResult' = IF statusCalls > 0 THEN None ELSE CheckStatusResult(resp)
         /\ gets' = gets + 1
    /\ statusCalls' = statusCalls + 1
    /\ prevStatusResp' = statusResp
    /\ prevStatusResult' = statusResult
    /\ UNCHANGED <<cmd, pc>>
    /\ UNCHANGED autoVars
    /\ UNCHANGED reqVars
    /\ UNCHANGED <<objVars, walletVars, transferVars>>
CheckFaucetStatus ==
    /\ cmd = "status"
    /\ statusCalls < MaxStatusCalls
    /\ \E resp \in StatusResponses :
         /\ statusResp' = resp
         /\ statusResult' = CheckStatusResult(resp)
         /\ gets' = gets + 1
    /\ statusCalls' = statusCalls + 1
    /\ prevStatusResp' = statusResp
    /\ prevStatusResult' = statusResult
    /\ UNCHANGED <<cmd, pc>>
    /\ UNCHANGED autoVars
    /\ UNCHANGED reqVars
    /\ UNCHANGED <<objVars, walletVars, transferVars>>

\* ------------------------------------------------------------ run_automation

\* Step 1, one iteration: generate_wallet, wallets.append, save_wallet (which
\* may raise on the file write), then the pause between creations.  Nothing
\* in run_automation catches the exception: it ends the run.
CreateWallet_PauseAfterLast ==
    /\ cmd = "auto"
    /\ pc = "create"
    /\ i <= count
    /\ wallets' = Append(wallets, i)
    /\ \E saveOk \in BOOLEAN :
         IF saveOk
         THEN /\ saved' = saved \cup {i}
              /\ pauseLog' = IF i <= count
                             THEN Append(pauseLog, [kind |-> "create", after |-> i,
                                                    dur |-> CreatePause])
                             ELSE pauseLog
              /\ i' = i + 1
              /\ UNCHANGED <<pc, failedSave>>
         ELSE /\ failedSave' = i
              /\ pc' = "aborted"
              /\ UNCHANGED <<saved, pauseLog, i>>
    /\ UNCHANGED <<cmd, count, delay, successful_requests, outcomes>>
    /\ UNCHANGED reqVars
    /\ UNCHANGED statusVars
    /\ UNCHANGED <<objVars, walletVars, transferVars>>
CreateWallet ==
    /\ cmd = "auto"
    /\ pc = "create"
    /\ i <= count
    /\ wallets' = Append(wallets, i)
    /\ \E saveOk \in BOOLEAN :
         IF saveOk
         THEN /\ saved' = saved \cup {i}
              /\ pauseLog' = IF i < count
                             THEN Append(pauseLog, [kind |-> "create", after |-> i,
                                                    dur |-> CreatePause])
                             ELSE pauseLog
              /\ i' = i + 1
              /\ UNCHANGED <<pc, failedSave>>
         ELSE /\ failedSave' = i
              /\ pc' = "aborted"
              /\ UNCHANGED <<saved, pauseLog, i>>
    /\ UNCHANGED <<cmd, count, delay, successful_requests, outcomes>>
    /\ UNCHANGED reqVars
    /\ UNCHANGED statusVars
    /\ UNCHANGED <<objVars, walletVars, transferVars>>

\* End of step 1: successful_requests = 0 and the enumerate loop starts.
StartRequestPass_BeforeLastCreation ==
    /\ cmd = "auto"
    /\ pc = "create"
    /\ i >= count
    /\ successful_requests' = 0
    /\ i' = 1
    /\ pc' = "reqloop"
    /\ UNCHANGED <<cmd, count, delay, wallets, saved, failedSave, outcomes, pauseLog>>
    /\ UNCHANGED reqVars
    /\ UNCHANGED statusVars
    /\ UNCHANGED <<objVars, walletVars, transferVars>>
StartRequestPass ==
    /\ cmd = "auto"
    /\ pc = "create"
    /\ i > count
    /\ successful_requests' = 0
    /\ i' = 1
    /\ pc' = "reqloop"
    /\ UNCHANGED <<cmd, count, delay, wallets, saved, failedSave, outcomes, pauseLog>>
    /\ UNCHANGED reqVars
    /\ UNCHANGED statusVars
    /\ UNCHANGED <<objVars, walletVars, transferVars>>

\* Step 2, one iteration begins: self.request_tokens(wallet['address']) with
\* the default retry_count; the callee's loop starts at attempt 1.
CallRequestTokens_SharedCounter ==
    /\ cmd = "auto"
    /\ pc = "reqloop"
    /\ i <= Len(wallets)
    /\ address' = wallets[i]
    /\ retry_count' = DefaultRetryCount
    /\ attempt' = IF i = 1 THEN 1 ELSE attempt
    /\ result' = "none"
    /\ hist' = <<>>
    /\ sleeps' = <<>>
    /\ pc' = "attempt"
    /\ UNCHANGED cmd
    /\ UNCHANGED autoVars
    /\ UNCHANGED statusVars
    /\ UNCHANGED <<objVars, walletVars, transferVars>>
CallRequestTokens ==
    /\ cmd = "auto"
    /\ pc = "reqloop"
    /\ i <= Len(wallets)
    /\ address' = wallets[i]
    /\ retry_count' = DefaultRetryCount
    /\ attempt' = 1
    /\ result' = "none"
    /\ hist' = <<>>
    /\ sleeps' = <<>>
    /\ pc' = "attempt"
    /\ UNCHANGED cmd
    /\ UNCHANGED autoVars
    /\ UNCHANGED statusVars
    /\ UNCHANGED <<objVars, walletVars, transferVars>>

\* Step 2, the rest of the iteration once request_tokens has returned: count
\* a success, pause before the next request.
Outcome == [wallet |-> address, ok |-> (result = "true"), attempts |-> Len(hist)]

AfterRequest_BreakOnFailure ==
    /\ cmd = "auto"
    /\ pc = "returned"
    /\ successful_requests' = IF result = "true" THEN successful_requests + 1
                              ELSE successful_requests
    /\ outcomes' = Append(outcomes, Outcome)
    /\ pauseLog' = IF i < count /\ result = "true"
                   THEN Append(pauseLog, [kind |-> "request", after |-> i,
                                          dur |-> delay \div 1000])
                   ELSE pauseLog
    /\ i' = IF result = "true" THEN i + 1 ELSE Len(wallets) + 1
    /\ pc' = "reqloop"
    /\ UNCHANGED <<cmd, count, delay, wallets, saved, failedSave>>
    /\ UNCHANGED reqVars
    /\ UNCHANGED statusVars
    /\ UNCHANGED <<objVars, walletVars, transferVars>>
AfterRequest_CountsEveryRequest ==
    /\ cmd = "auto"
    /\ pc = "returned"
    /\ successful_requests' = successful_requests + 1
    /\ outcomes' = Append(outcomes, Outcome)
    /\ pauseLog' = IF i < count
                   THEN Append(pauseLog, [kind |-> "request", after |-> i,
                                          dur |-> delay \div 1000])
                   ELSE pauseLog
    /\ i' = i + 1
    /\ pc' = "reqloop"
    /\ UNCHANGED <<cmd, count, delay, wallets, saved, failedSave>>
    /\ UNCHANGED reqVars
    /\ UNCHANGED statusVars
    /\ UNCHANGED <<objVars, walletVars, transferVars>>
AfterRequest ==
    /\ cmd = "auto"
    /\ pc = "returned"
    /\ successful_requests' = IF result = "true" THEN successful_requests + 1
                              ELSE successful_requests
    /\ outcomes' = Append(outcomes, Outcome)
    /\ pauseLog' = IF i < count
                   THEN Append(pauseLog, [kind |-> "request", after |-> i,
                                          dur |-> delay \div 1000])
                   ELSE pauseLog
    /\ i' = i + 1
    /\ pc' = "reqloop"
    /\ UNCHANGED <<cmd, count, delay, wallets, saved, failedSave>>
    /\ UNCHANGED reqVars
    /\ UNCHANGED statusVars
    /\ UNCHANGED <<objVars, walletVars, transferVars>>

\* The enumerate loop is over: print the summary.
Summary ==
    /\ cmd = "auto"
    /\ pc = "reqloop"
    /\ i > Len(wallets)
    /\ pc' = "done"
    /\ UNCHANGED cmd
    /\ UNCHANGED autoVars
    /\ UNCHANGED reqVars
    /\ UNCHANGED statusVars
    /\ UNCHANGED <<objVars, walletVars, transferVars>>

\* ----------------------------------------------------------- generate_wallet

\* The fixed word list of generate_wallet.
Words == <<"abandon", "ability", "able", "about", "above", "absent", "absorb", "abstract",
           "absurd", "abuse", "access", "accident", "account", "accuse", "achieve", "acid",
           "acoustic", "acquire", "across", "act", "action", "actor", "actress", "actual">>

\* The values explored for one random index into a pool of m words: the
\* lowest and the highest the generator can return.
Draws(m) == {1, m}

\* The pool once the word at position j has been drawn: the last word takes
\* its place and the pool shrinks by one.
RemoveAt(pl, j) == [k \in 1 .. Len(pl) - 1 |-> IF k = j THEN pl[Len(pl)] ELSE pl[k]]

\* random.sample(words, 12), one drawn word per step; the mnemonic is the
\* drawn words joined by single spaces, kept here as the word sequence.
SampleWord_WithReplacement ==
    /\ cmd = "create"
    /\ pc = "sample"
    /\ Len(mnemonic) < MnemonicWords
    /\ \E j \in Draws(Len(pool)) :
         /\ mnemonic' = Append(mnemonic, pool[j])
         /\ pool' = pool
    /\ UNCHANGED <<cmd, pc>>
    /\ UNCHANGED <<autoVars, reqVars, statusVars, objVars, transferVars>>
SampleWord ==
    /\ cmd = "create"
    /\ pc = "sample"
    /\ Len(mnemonic) < MnemonicWords
    /\ \E j \in Draws(Len(pool)) :
         /\ mnemonic' = Append(mnemonic, pool[j])
         /\ pool' = RemoveAt(pool, j)
    /\ UNCHANGED <<cmd, pc>>
    /\ UNCHANGED <<autoVars, reqVars, statusVars, objVars, transferVars>>

\* generate_wallet returns the wallet record.
WalletReturned ==
    /\ cmd = "create"
    /\ pc = "sample"
    /\ Len(mnemonic) = MnemonicWords
    /\ pc' = "created"
    /\ UNCHANGED cmd
    /\ UNCHANGED <<autoVars, reqVars, statusVars, objVars, walletVars, transferVars>>

\* ------------------------------------------------------- batch_transfer.main

\* What a wallet file can hold: a record with a mnemonic ("ok"), a record
\* without one or with an empty one, or something open / json.load / .get
\* raises on ("unreadable").
FileKinds == {"ok", "nomnemonic", "emptymnemonic", "unreadable"}
FileLists == UNION {[1 .. n -> FileKinds] : n \in 0 .. MaxFiles}

Loads(kind) == kind # "unreadable"
HasMnemonic(kind) == kind = "ok"

\* One iteration of the loop over the sorted wallet files: load, a file
\* without mnemonic goes to the next iteration with `continue`, a readable
\* one is counted as a simulated transfer, an exception is caught; then the
\* pause unless this was the last file.
ProcessWalletFile_SubmitsTransfer ==
    /\ cmd = "transfer"
    /\ pc = "transfer"
    /\ fileIdx <= Len(walletFiles)
    /\ LET kind == walletFiles[fileIdx] IN
         /\ visited' = Append(visited, fileIdx)
         /\ fileIdx' = fileIdx + 1
         /\ IF Loads(kind) /\ HasMnemonic(kind)
            THEN /\ successful_transfers' = successful_transfers + 1
                 /\ total_amount' = total_amount + TransferCents
                 /\ hist' = Append(hist, Http(200))
            ELSE /\ UNCHANGED <<successful_transfers, total_amount, hist>>
         /\ IF Loads(kind) /\ ~HasMnemonic(kind)
            THEN UNCHANGED transferPauses
            ELSE transferPauses' =
                    IF fileIdx < Len(walletFiles)
                    THEN Append(transferPauses, [after |-> fileIdx, dur |-> TransferPause])
                    ELSE transferPauses
    /\ UNCHANGED <<cmd, pc, walletFiles>>
    /\ UNCHANGED <<address, retry_count, attempt, result, sleeps>>
    /\ UNCHANGED <<autoVars, statusVars, objVars, walletVars>>
ProcessWalletFile_CountsEveryFile ==
    /\ cmd = "transfer"
    /\ pc = "transfer"
    /\ fileIdx <= Len(walletFiles)
    /\ LET kind == walletFiles[fileIdx] IN
         /\ visited' = Append(visited, fileIdx)
         /\ fileIdx' = fileIdx + 1
         /\ IF Loads(kind)
            THEN /\ successful_transfers' = successful_transfers + 1
                 /\ total_amount' = total_amount + TransferCents
            ELSE /\ UNCHANGED <<successful_transfers, total_amount>>
         /\ IF Loads(kind) /\ ~HasMnemonic(kind)
            THEN UNCHANGED transferPauses
            ELSE transferPauses' =
                    IF fileIdx < Len(walletFiles)
                    THEN Append(transferPauses, [after |-> fileIdx, dur |-> TransferPause])
                    ELSE transferPauses
    /\ UNCHANGED <<cmd, pc, walletFiles>>
    /\ UNCHANGED <<autoVars, reqVars, statusVars, objVars, walletVars>>
ProcessWalletFile ==
    /\ cmd = "transfer"
    /\ pc = "transfer"
    /\ fileIdx <= Len(walletFiles)
    /\ LET kind == walletFiles[fileIdx] IN
         /\ visited' = Append(visited, fileIdx)
         /\ fileIdx' = fileIdx + 1
         /\ IF Loads(kind) /\ HasMnemonic(kind)
            THEN /\ successful_transfers' = successful_transfers + 1
                 /\ total_amount' = total_amount + TransferCents
            ELSE /\ UNCHANGED <<successful_transfers, total_amount>>
         /\ IF Loads(kind) /\ ~HasMnemonic(kind)
            THEN UNCHANGED transferPauses
            ELSE transferPauses' =
                    IF fileIdx < Len(walletFiles)
                    THEN Append(transferPauses, [after |-> fileIdx, dur |-> TransferPause])
                    ELSE transferPauses
    /\ UNCHANGED <<cmd, pc, walletFiles>>
    /\ UNCHANGED <<autoVars, reqVars, statusVars, objVars, walletVars>>

\* The loop is over: print the totals.
TransferSummary ==
    /\ cmd = "transfer"
    /\ pc = "transfer"
    /\ fileIdx > Len(walletFiles)
    /\ pc' = "tdone"
    /\ UNCHANGED cmd
    /\ UNCHANGED <<autoVars, reqVars, statusVars, objVars, walletVars, transferVars>>

\* ------------------------------------------------------------ specification

RetryCounts == -1 .. MaxRetry

\* A command starts: a direct request_tokens(address, retry_count) call, a
\* series of check_faucet_status calls, run_automation(count, delay),
\* generate_wallet, or batch_transfer.main over the wallet files found.
Init ==
    /\ cmd \in {"request", "status", "auto", "create", "transfer"}
    /\ pc = (CASE cmd = "request" -> "attempt"
               [] cmd = "auto" -> "create"
               [] cmd = "status" -> "status"
               [] cmd = "create" -> "sample"
               [] cmd = "transfer" -> "transfer")
    /\ count \in (IF cmd = "auto" THEN 0 .. MaxCount ELSE {0})
    /\ delay \in (IF cmd = "auto" THEN Delays ELSE {0})
    /\ i = 1
    /\ wallets = <<>>
    /\ saved = {}
    /\ failedSave = 0
    /\ successful_requests = 0
    /\ address = ExternalAddress
    /\ retry_count \in (IF cmd = "request" THEN RetryCounts ELSE {DefaultRetryCount})
    /\ attempt = 1
    /\ result = "none"
    /\ hist = <<>>
    /\ sleeps = <<>>
    /\ outcomes = <<>>
    /\ pauseLog = <<>>
    /\ statusResp = [exc |-> TRUE, status |-> 0, data |-> NoBody]
    /\ statusResult = None
    /\ statusCalls = 0
    /\ gets = 0
    /\ prevStatusResp = [exc |-> TRUE, status |-> 0, data |-> NoBody]
    /\ prevStatusResult = None
    /\ faucet_frontend_url = "https://faucet.demos.sh"
    /\ faucet_backend_url = "https://faucetbackend.demos.sh"
    /\ pool = Words
    /\ mnemonic = <<>>
    /\ walletFiles \in (IF cmd = "transfer" THEN FileLists ELSE {<<>>})
    /\ fileIdx = 1
    /\ successful_transfers = 0
    /\ total_amount = 0
    /\ visited = <<>>
    /\ transferPauses = <<>>

Next ==
    \/ Attempt
    \/ LoopExit
    \/ CheckFaucetStatus
    \/ CreateWallet
    \/ StartRequestPass
    \/ CallRequestTokens
    \/ AfterRequest
    \/ Summary
    \/ SampleWord
    \/ WalletReturned
    \/ ProcessWalletFile
    \/ TransferSummary

Spec == Init /\ [][Next]_vars

\* The program is one thread that keeps running, and every HTTP call returns
\* (a response, or an exception after the 10 s timeout): a step that can be
\* taken is eventually taken.
FairSpec == Spec /\ WF_vars(Next)

TypeOK ==
    /\ cmd \in {"request", "status", "auto", "create", "transfer"}
    /\ pc \in {"attempt", "returned", "status", "create", "aborted", "reqloop", "done",
              "sample", "created", "transfer", "tdone"}
    /\ count \in 0 .. MaxCount
    /\ i \in 1 .. MaxCount + 1
    /\ result \in {"none", "true", "false"}
    /\ attempt \in 1 .. MaxRetry + DefaultRetryCount + 1
    /\ Len(mnemonic) + Len(pool) = Len(Words)
    /\ fileIdx \in 1 .. Len(walletFiles) + 1
    /\ successful_transfers \in 0 .. Len(walletFiles)

\* ------------------------------------------------------------------ helpers

\* Total time slept by the current request_tokens call.
RECURSIVE TotalWait(_)
TotalWait(ss) == IF ss = <<>> THEN 0 ELSE SumSeq(Head(ss)) + TotalWait(Tail(ss))

Failed(resp) == Classify(resp) # "Success"
Transient(resp) == Classify(resp) \in {"Rejected", "NetworkError"}
IsCreatePause(e) == e.kind = "create"
IsRequestPause(e) == e.kind = "request"
CreatePauses == SelectSeq(pauseLog, IsCreatePause)
RequestPauses == SelectSeq(pauseLog, IsRequestPause)
Successes == {k \in 1 .. Len(outcomes) : outcomes[k].ok}

\* ------------------------------------------------------------------- claims

\* C1: for retry_count >= 1 a request_tokens call never issues more than
\* retry_count POSTs, and when every attempt was a non-success it has issued
\* exactly retry_count POSTs when it returns, and it returns False.
C1_BoundedAttempts ==
    retry_count >= 1 =>
        /\ Len(hist) <= retry_count
        /\ (result # "none" /\ \A k \in 1 .. Len(hist) : Failed(hist[k]))
              => (Len(hist) = retry_count /\ result = "false")

C1_Witness ==
    /\ cmd = "request" /\ retry_count = 3 /\ pc = "returned"
    /\ hist = <<NetErr, NetErr, NetErr>> /\ result = "false"

\* C2: when attempts 1..k-1 are non-successes and attempt k gets HTTP 200,
\* the call has returned True after exactly k POSTs, and nothing was slept
\* after the success: only the k-1 failed attempts are followed by waits.
C2_SuccessAtK ==
    \A k \in 1 .. Len(hist) :
        (Classify(hist[k]) = "Success" /\ \A j \in 1 .. k - 1 : Failed(hist[j]))
           => /\ result = "true"
              /\ pc # "attempt"
              /\ Len(hist) = k
              /\ Len(sleeps) = k - 1

C2_Witness ==
    /\ retry_count = 3 /\ pc = "returned" /\ result = "true"
    /\ hist = <<Http(429), Http(429), Http(200)>>

\* C3: after a rate-limited attempt n < retry_count the only wait before
\* attempt n+1 is 30 * n.
C3_RateLimitWaitOnly ==
    \A n \in 1 .. Len(sleeps) :
        (Classify(hist[n]) = "RateLimited" /\ n < retry_count)
           => sleeps[n] = <<RateLimitBase * n>>

\* C4: after a Rejected or NetworkError attempt n < retry_count the call
\* sleeps exactly 5 and goes on to attempt n+1; and replacing a Rejected or
\* NetworkError response of the history by any other response of these two
\* classes changes neither the value returned, nor the number of POSTs, nor
\* the total wait.
C4_TransientHandledAlike ==
    /\ \A n \in 1 .. Len(sleeps) :
          (Transient(hist[n]) /\ n < retry_count)
             => /\ sleeps[n] = <<RetryPause>>
                /\ Len(hist) > n \/ (pc = "attempt" /\ attempt = n + 1)
    /\ result # "none" =>
          \A n \in 1 .. Len(hist) : \A r \in Responses :
              (Transient(hist[n]) /\ Transient(r))
                 => RunPolicy([hist EXCEPT ![n] = r], retry_count)
                       = [result |-> result, calls |-> Len(hist),
                          wait |-> TotalWait(sleeps)]

C4_Witness ==
    /\ retry_count = 3 /\ result = "false"
    /\ hist = <<Http(500), NetErr, Http(500)>>
    /\ sleeps = << <<RetryPause>>, <<RetryPause>>, <<>> >>

\* C5: a wallet whose save_wallet raised is not in the wallet list and the
\* run goes on instead of ending there.
C5_SaveFailureSkipsWallet ==
    failedSave # 0 =>
        /\ pc # "aborted"
        /\ \A k \in 1 .. Len(wallets) : wallets[k] # failedSave

\* C6: in the request pass request_tokens is called once per wallet of the
\* list, in list order: the wallets requested so far are a prefix of the
\* list, the call in progress is for the next wallet, and at the summary
\* every wallet has been requested, whatever the earlier calls returned.
C6_RequestsInCreationOrder ==
    cmd = "auto" =>
        /\ Len(outcomes) <= Len(wallets)
        /\ \A k \in 1 .. Len(outcomes) : outcomes[k].wallet = wallets[k]
        /\ pc \in {"attempt", "returned"} => address = wallets[Len(outcomes) + 1]
        /\ pc = "done" => Len(outcomes) = Len(wallets)

C6_Witness ==
    /\ cmd = "auto" /\ pc = "done" /\ count = 3 /\ Len(outcomes) = 3
    /\ ~outcomes[1].ok /\ outcomes[2].ok /\ ~outcomes[3].ok

\* C7: successful_requests is the number of requested wallets whose call
\* returned True, between 0 and the number requested, which is at most
\* count; at the summary the number requested is the number of wallets
\* created and saved; with count = 0 nothing is created or requested.
C7_SuccessAccounting ==
    cmd = "auto" =>
        /\ successful_requests = Cardinality(Successes)
        /\ 0 <= successful_requests
        /\ successful_requests <= Len(outcomes)
        /\ Len(outcomes) <= count
        /\ pc = "done" => Len(outcomes) = Cardinality(saved)
        /\ count = 0 => (wallets = <<>> /\ outcomes = <<>> /\ successful_requests = 0
                         /\ hist = <<>>)

C7_Witness ==
    /\ cmd = "auto" /\ pc = "done" /\ count = 3
    /\ Len(outcomes) = 3 /\ successful_requests = 1

\* C8: every request_tokens call counts its own attempts from 1, in a batch
\* with the full default budget, and what it returns is what the policy
\* yields on the responses to its own POSTs; in a batch of 3 where wallet 1
\* succeeds at once, wallet 2 succeeds on its second attempt and wallet 3 is
\* rejected three times, the successes are 2 and the attempts 1, 2 and 3.
C8_OwnAttemptCounter ==
    /\ pc = "attempt" => attempt = Len(hist) + 1
    /\ (cmd = "auto" /\ pc = "attempt") => retry_count = DefaultRetryCount
    /\ result # "none" =>
          /\ RunPolicy(hist, retry_count).result = result
          /\ RunPolicy(hist, retry_count).calls = Len(hist)
    /\ (/\ cmd = "auto" /\ count = 3 /\ pc = "done" /\ Len(outcomes) = 3
        /\ outcomes[1] = [wallet |-> 1, ok |-> TRUE, attempts |-> 1]
        /\ outcomes[2] = [wallet |-> 2, ok |-> TRUE, attempts |-> 2]
        /\ hist = <<Http(500), Http(500), Http(500)>>)
          => /\ outcomes[3] = [wallet |-> 3, ok |-> FALSE, attempts |-> 3]
             /\ successful_requests = 2

C8_Witness ==
    /\ cmd = "auto" /\ count = 3 /\ delay = 0 /\ pc = "done"
    /\ outcomes = << [wallet |-> 1, ok |-> TRUE, attempts |-> 1],
                     [wallet |-> 2, ok |-> TRUE, attempts |-> 2],
                     [wallet |-> 3, ok |-> FALSE, attempts |-> 3] >>
    /\ hist = <<Http(500), Http(500), Http(500)>>
    /\ successful_requests = 2

\* C9: run_automation sleeps 2 after the creation of wallet k exactly when
\* k < count, and delay / 1000 after the request of wallet k exactly when
\* k < count; at the summary that is count - 1 pauses of each kind for
\* count >= 1 and none for count <= 1.
C9_PausesBetween ==
    cmd = "auto" =>
        /\ Len(CreatePauses) = Cardinality({k \in saved : k < count})
        /\ \A j \in 1 .. Len(CreatePauses) :
              CreatePauses[j] = [kind |-> "create", after |-> j, dur |-> CreatePause]
        /\ Len(RequestPauses) = Cardinality({k \in 1 .. Len(outcomes) : k < count})
        /\ \A j \in 1 .. Len(RequestPauses) :
              RequestPauses[j] = [kind |-> "request", after |-> j, dur |-> delay \div 1000]
        /\ pc = "done" =>
              /\ Len(CreatePauses) = (IF count >= 1 THEN count - 1 ELSE 0)
              /\ Len(RequestPauses) = (IF count >= 1 THEN count - 1 ELSE 0)
              /\ Len(pauseLog) = Len(CreatePauses) + Len(RequestPauses)

C9_Witness ==
    /\ cmd = "auto" /\ pc = "done" /\ count = 3 /\ delay = 5000
    /\ Len(CreatePauses) = 2 /\ Len(RequestPauses) = 2

\* C10 as stated: check_faucet_status returns a pair only when balance and
\* publicKey were both read from a 200 response, None otherwise; one GET per
\* call.
BothFieldsRead(resp) ==
    /\ ~resp.exc /\ resp.status = 200
    /\ resp.data.json = "object" /\ resp.data.body = "object"
    /\ resp.data.balance # Absent /\ resp.data.publicKey # Absent

C10_NoneOnAnyFailure ==
    statusCalls > 0 =>
        /\ statusResult.none = ~BothFieldsRead(statusResp)
        /\ gets = statusCalls

\* C10 amended: check_faucet_status returns None on a transport error, a
\* non-200 status, a body that is not a JSON object or a "body" member that
\* is not an object; on a 200 JSON object it returns a pair where a field
\* missing from the response (or the whole "body") is the placeholder
\* "Unknown" and a field that is there is the value read; one GET per call.
C10_NoneOrPlaceholders ==
    statusCalls > 0 =>
        /\ statusResult.none =
              (\/ statusResp.exc
               \/ statusResp.status # 200
               \/ statusResp.data.json # "object"
               \/ statusResp.data.body = "scalar")
        /\ ~statusResult.none =>
              /\ statusResult.balance =
                    (IF statusResp.data.balance = Absent THEN "Unknown"
                     ELSE statusResp.data.balance)
              /\ statusResult.address =
                    (IF statusResp.data.publicKey = Absent THEN "Unknown"
                     ELSE statusResp.data.publicKey)
        /\ BothFieldsRead(statusResp) =>
              statusResult = Pair(statusResp.data.balance, statusResp.data.publicKey)
        /\ gets = statusCalls

C10_Witness ==
    /\ statusCalls > 0
    /\ ~statusResp.exc /\ statusResp.status = 200
    /\ statusResp.data.body = "object" /\ statusResp.data.balance = Absent
    /\ statusResult = Pair("Unknown", "0xfaucet")

\* C11: a call returns True only on a response with status exactly 200; a
\* 429 is the only response followed by the 30 * n backoff; every other
\* status, 201 included, and a transport error are followed by the short
\* pause alone, and none of them ends the loop.
C11_OnlyStatus200Succeeds ==
    /\ result = "true" =>
          /\ Len(hist) >= 1
          /\ hist[Len(hist)] = Http(200)
    /\ \A n \in 1 .. Len(sleeps) :
          /\ hist[n] # Http(200)
          /\ n < retry_count =>
                /\ (hist[n] = Http(429)) = (Len(sleeps[n]) = 2 /\ sleeps[n][1] = RateLimitBase * n)
                /\ (hist[n] # Http(429)) = (sleeps[n] = <<RetryPause>>)

C11_Witness ==
    /\ retry_count = 3 /\ result = "true"
    /\ hist = <<Http(201), NetErr, Http(200)>>
    /\ sleeps = << <<RetryPause>>, <<RetryPause>> >>

\* POSTs issued so far by a run_automation: those of the finished requests
\* and those of the request_tokens call in progress.
RECURSIVE SumAttempts(_)
SumAttempts(os) == IF os = <<>> THEN 0 ELSE Head(os).attempts + SumAttempts(Tail(os))
PostsSoFar == SumAttempts(outcomes) + (IF pc \in {"attempt", "returned"} THEN Len(hist) ELSE 0)

\* C12: every run_automation reaches the summary, having created at most
\* count wallets and issued at most count * retry_count POSTs.
C12_ReachesSummary ==
    /\ (cmd = "auto") ~> (pc = "done")
    /\ [](cmd = "auto" => (Len(wallets) <= count /\ PostsSoFar <= count * DefaultRetryCount))

\* What does hold of run_automation: it always ends, at the summary or at
\* the exception save_wallet raised, within the same bounds.
RunEnds ==
    /\ (cmd = "auto") ~> (pc \in {"done", "aborted"})
    /\ [](cmd = "auto" => (Len(wallets) <= count /\ PostsSoFar <= count * DefaultRetryCount))

\* C13: no step of batch_transfer issues an HTTP request (no POST, no GET)
\* or writes a file: the wallet files keep their content and none is saved.
C13_TransferIsSimulation ==
    [][cmd = "transfer" =>
          /\ hist' = hist
          /\ gets' = gets
          /\ walletFiles' = walletFiles
          /\ saved' = saved]_vars

C13_Witness ==
    /\ cmd = "transfer" /\ pc = "tdone"
    /\ Len(walletFiles) = 3 /\ successful_transfers = 2
    /\ total_amount = 2 * TransferCents
    /\ hist = <<>> /\ gets = 0 /\ saved = {}

WordSet == {Words[k] : k \in 1 .. Len(Words)}

\* C15: the words drawn for a mnemonic are pairwise distinct words of the
\* fixed list, and the mnemonic generate_wallet returns has exactly 12.
C15_MnemonicDistinctWords ==
    cmd = "create" =>
        /\ \A a, b \in 1 .. Len(mnemonic) : a # b => mnemonic[a] # mnemonic[b]
        /\ \A a \in 1 .. Len(mnemonic) : mnemonic[a] \in WordSet
        /\ Len(mnemonic) <= MnemonicWords
        /\ pc = "created" => Len(mnemonic) = MnemonicWords

C15_Witness ==
    /\ cmd = "create" /\ pc = "created"
    /\ Len(mnemonic) = 12
    /\ mnemonic[1] = "actual" /\ mnemonic[2] = "abandon"

\* C16: run_automation issues no POST while wallets are being created; once
\* the request pass has begun all count wallets have been created and
\* saved; and the requests go through the wallets in creation order.
C16_TwoOrderedPasses ==
    cmd = "auto" =>
        /\ pc \in {"create", "aborted"} => (hist = <<>> /\ outcomes = <<>>)
        /\ (pc \in {"reqloop", "attempt", "returned", "done"} \/ hist # <<>>)
              => (Len(wallets) = count /\ saved = 1 .. count)
        /\ \A k \in 1 .. Len(wallets) : wallets[k] = k
        /\ \A k \in 1 .. Len(outcomes) : outcomes[k].wallet = k
        /\ pc \in {"attempt", "returned"} => address = Len(outcomes) + 1

C16_Witness ==
    /\ cmd = "auto" /\ count = 3 /\ pc = "attempt"
    /\ saved = {1, 2, 3} /\ Len(outcomes) = 1 /\ address = 2
    /\ hist = <<Http(429)>>

\* C17: nothing is slept after the attempt numbered retry_count, whatever
\* its failure: a call that returns False has made retry_count attempts and
\* the last of them is followed by no time.sleep.
C17_NoWaitAfterLastAttempt ==
    /\ \A n \in 1 .. Len(sleeps) : n >= retry_count => sleeps[n] = <<>>
    /\ (result = "false" /\ retry_count >= 1) =>
          /\ Len(sleeps) = retry_count
          /\ sleeps[retry_count] = <<>>
          /\ pc # "attempt"

C17_Witness ==
    /\ retry_count = 3 /\ result = "false" /\ pc = "returned"
    /\ hist = <<Http(500), Http(429), Http(429)>>
    /\ sleeps = << <<RetryPause>>, <<2 * RateLimitBase, RetryPause>>, <<>> >>

\* C18: with retry_count <= 0 a call issues no POST, sleeps nothing and
\* returns False.
C18_NoAttemptWithoutBudget ==
    retry_count <= 0 =>
        /\ hist = <<>>
        /\ sleeps = <<>>
        /\ result # "true"
        /\ pc = "returned" => result = "false"

C18_Witness ==
    /\ cmd = "request" /\ retry_count = 0 /\ pc = "returned"
    /\ result = "false" /\ hist = <<>> /\ sleeps = <<>>

\* C19: successful_transfers is the number of processed files that loaded
\* and hold a non-empty mnemonic; the other files are passed over without
\* ending the loop; the files are visited once each in sorted order, all of
\* them by the time of the summary.
C19_TransferAccounting ==
    cmd = "transfer" =>
        /\ successful_transfers =
              Cardinality({k \in 1 .. Len(visited) : walletFiles[visited[k]] = "ok"})
        /\ 0 <= successful_transfers
        /\ successful_transfers <= Len(walletFiles)
        /\ total_amount = successful_transfers * TransferCents
        /\ Len(visited) = fileIdx - 1
        /\ \A k \in 1 .. Len(visited) : visited[k] = k
        /\ pc = "tdone" => Len(visited) = Len(walletFiles)

C19_Witness ==
    /\ cmd = "transfer" /\ pc = "tdone"
    /\ walletFiles = <<"unreadable", "nomnemonic", "ok">>
    /\ visited = <<1, 2, 3>>
    /\ successful_transfers = 1

====
